---------------------------- MODULE Spec2Model ----------------------------
(***************************************************************************)
(* The command bridge of agenta: the UI shells (the Tauri desktop store in *)
(* its two revisions, the VS Code extension panels) that issue commands to *)
(* the backend process and apply the answers to their local state.         *)
(*                                                                         *)
(* crewai-desktop/agenta/src/store/index.ts holds two revisions of the     *)
(* store: lines 40-156 drive the backend through ApiService                *)
(* (services/api.ts), lines 205-294 through the backend slice              *)
(* (store/backend.ts).  One run of the model is a run of one front end,    *)
(* chosen in Init (variable component).                                    *)
(***************************************************************************)
EXTENDS Integers, Sequences, FiniteSets, TLC

(***************************************************************************)
(* Bounds of the model.                                                    *)
(***************************************************************************)
\* invocations of the transport issued in one run of the backend slice
\* (whose commands need a connect first)
MaxCalls == 3
\* the same for a run of the ApiService store
MaxApiCalls == 2
\* the same for a run of an extension panel
MaxPanelCalls == 2
\* failed connection attempts in a row after which the contract allows no
\* automatic attempt
MaxAttempts == MaxCalls - 1
\* events the backend logs in one run
MaxEvents == 2
\* webview panels of one class created in one run
MaxPanels == 2

VARIABLES
    component,     \* the front end this run exercises
    isConnected,   \* store: isConnected
    connecting,    \* store: connecting
    error,         \* store: error ("null" or a message)
    currentMode,   \* store: currentMode
    debugEvents,   \* store: debugEvents
    llmConfigs,    \* store: llmConfigs
    taskStatus,    \* store: taskStatus
    thrown,        \* the store action whose promise rejected to the UI, or "none"
    calls,         \* transport invocations whose promise has not been consumed
    nextId,        \* identity of the next invocation (the promise it returns)
    backendLog,    \* backend: its debug event log
    backendMode,   \* backend: its operation mode
    backendConfigs,\* backend: the persisted agent configs
    evCount,       \* backend: events logged so far
    webEvents,     \* debug panel webview: events
    wsState,       \* agent panel: state of its WebSocket
    wsSent,        \* agent panel: messages sent over the WebSocket
    uiResponse,    \* agent panel webview: the response it displays
    uiStatus,      \* agent panel webview: the status line it displays
    secrets,       \* SecureAPIKeyStorage: context.secrets, by provider
    providerList,  \* SecureAPIKeyStorage: globalState 'agenta.providers'
    keyOps,        \* storeAPIKey / deleteAPIKey calls between their two awaits
    webConfigs,    \* LLM settings webview: currentConfigs
    webMode,       \* mode control webview: currentMode
    webDescription,\* mode control webview: the text of #modeDescription
    modeInbox,     \* updateMode messages posted to the mode control webview
    failedAttempts,\* observed: connection attempts that failed in a row
    ignoredSwitch, \* observed: target of a switchMode the webview returned from
                   \* without posting anything, or "none"
    lastApplied,   \* observed: id of the call whose result debugEvents holds
    currentPanel,  \* per panel class: whether its static currentPanel is set
    livePanels,    \* per panel class: panels created and not yet disposed
    createdPanels  \* per panel class: panels created so far

storeVars == <<isConnected, connecting, error, currentMode, debugEvents,
               llmConfigs, taskStatus, thrown>>
backendVars == <<backendLog, backendMode, backendConfigs, evCount>>
debugPanelVars == <<webEvents>>
agentPanelVars == <<wsState, wsSent, uiResponse, uiStatus>>
llmPanelVars == <<secrets, providerList, keyOps, webConfigs>>
modePanelVars == <<webMode, webDescription, modeInbox>>
extVars == <<debugPanelVars, agentPanelVars, llmPanelVars, modePanelVars>>
obsVars == <<failedAttempts, ignoredSwitch, lastApplied>>
panelVars == <<currentPanel, livePanels, createdPanels>>
vars == <<component, panelVars, obsVars, storeVars, calls, nextId, backendVars, extVars>>

(***************************************************************************)
(* Values.                                                                 *)
(***************************************************************************)
Modes == {"plan", "act"}
Agents == {"code_agent"}
ProviderNames == {"openai"}
ApiKeys == {"none", "sk-test"}
SecretKeys == {"sk-test"}

\* LLMConfig (api.ts:27-32, index.ts:160-165); apiKey "none" is an absent key
\* temperature is in tenths (7 is 0.7); maxTokens is <<>> when absent, <<n>>
\* when present
NoConfig == [provider |-> "none", apiKey |-> "none", temperature |-> 0,
             maxTokens |-> <<>>]
\* the config the settings form shows for an agent that has none
\* (llm_settings_panel.js:309-314), with a provider selected
DefaultConfig == [provider |-> "openai", apiKey |-> "none", temperature |-> 7,
                  maxTokens |-> <<>>]
\* the configs the UI passes in: the default one with or without a key, one
\* with the temperature typed as 2.5, one with max tokens typed as 0
UIConfigs ==
    {[DefaultConfig EXCEPT !.provider = p, !.apiKey = k] :
         p \in ProviderNames, k \in ApiKeys}
    \cup {[DefaultConfig EXCEPT !.temperature = 25],
          [DefaultConfig EXCEPT !.maxTokens = <<0>>]}
\* the configs the settings webview posts: saveConfig builds provider_name,
\* model_name, temperature and max_tokens, never a key
WebviewConfigs == {config \in UIConfigs : config.apiKey = "none"}
EmptyConfigs == [a \in Agents |-> NoConfig]

\* the arguments sent with a command; fields a command does not use are "none"
NoArgs == [mode |-> "none", config |-> NoConfig]

\* ApiResponse / BackendResponse: status success | error, or the invoke
\* promise rejecting ("throw")
NoResp == [kind |-> "none", forId |-> 0, events |-> <<>>, mode |-> "none",
           configs |-> EmptyConfigs, flag |-> FALSE]

Pending(c) == c.state = "sent"
Settled(c) == c.state = "settled"

(***************************************************************************)
(* The transport: invoke() returns a promise per invocation.               *)
(***************************************************************************)
Invoke(op, channel, command, args, local) ==
    [id |-> nextId, op |-> op, channel |-> channel, command |-> command,
     args |-> args, local |-> local, held |-> EmptyConfigs,
     state |-> "sent", resp |-> NoResp]

CallBound ==
    CASE component \in {"slice", "mode"} -> MaxCalls
      [] component = "api" -> MaxApiCalls
      [] OTHER -> MaxPanelCalls

CanInvoke(n) == nextId + n - 1 <= CallBound

Issue(c) ==
    /\ calls' = calls \cup {c}
    /\ nextId' = nextId + 1

\* a registry that hands a caller the oldest settled answer, whichever
\* request it answers
AwaitedOldestSettled(c) ==
    LET settled == {d \in calls : Settled(d)}
    IN  IF settled = {} THEN c.resp
        ELSE (CHOOSE d \in settled : \A e \in settled : d.id <= e.id).resp

\* the value the await of invocation c yields: the settlement of c's own promise
Awaited(c) == c.resp

\* consuming the promise of c: its continuation runs once
Consume(c) == calls' = calls \ {c}

(***************************************************************************)
(* The backend process behind the transport.  It answers the invocation it *)
(* was handed: success with the data the command asks for, an error        *)
(* status, or a failure of the invocation itself.                          *)
(***************************************************************************)
Settle(c, r) ==
    calls' = (calls \ {c}) \cup {[c EXCEPT !.state = "settled", !.resp = r]}

SuccessOf(c) ==
    [NoResp EXCEPT !.kind = "success", !.forId = c.id,
                   !.events = IF c.command \in {"get_debug_events", "get_events"}
                              THEN backendLog ELSE <<>>,
                   !.mode = IF c.command = "get_mode" THEN backendMode
                            ELSE IF c.command = "switch_mode" THEN c.args.mode
                            ELSE "none",
                   !.configs = IF c.command \in {"get_llm_configs", "get_configs"}
                               THEN backendConfigs ELSE EmptyConfigs]

BackendEffect(c) ==
    /\ backendMode' = IF c.command \in {"set_mode", "switch_mode"}
                      THEN c.args.mode ELSE backendMode
    /\ backendLog' = IF c.command \in {"clear_debug_logs", "clear_logs"}
                     THEN <<>> ELSE backendLog
    /\ backendConfigs' = IF c.command \in {"save_llm_config", "save_config"}
                         THEN [a \in Agents |-> c.args.config]
                         ELSE backendConfigs
    /\ UNCHANGED evCount

BackendSucceed(c) ==
    /\ Pending(c)
    /\ c.command # "check_backend"
    /\ Settle(c, SuccessOf(c))
    /\ BackendEffect(c)
    /\ UNCHANGED <<component, panelVars, obsVars, storeVars, nextId, extVars>>

\* check_backend answers whether the backend process runs
BackendCheck(c, running) ==
    /\ Pending(c)
    /\ c.command = "check_backend"
    /\ Settle(c, [SuccessOf(c) EXCEPT !.flag = running])
    /\ UNCHANGED <<component, panelVars, obsVars, storeVars, nextId, backendVars, extVars>>

\* an error status, or the invocation rejecting
BackendFail(c, kind) ==
    /\ Pending(c)
    /\ kind \in {"error", "throw"}
    /\ kind = "error" => c.channel \in {"send_command", "send_to_backend",
                                          "crewai.sendMessage"}
    /\ Settle(c, [NoResp EXCEPT !.kind = kind, !.forId = c.id])
    /\ UNCHANGED <<component, panelVars, obsVars, storeVars, nextId, backendVars, extVars>>

\* the backend logs a debug event of its own accord (followed in the runs
\* of the front ends that show the log)
BackendLogEvent ==
    /\ component \in {"slice", "api", "debug"}
    /\ evCount < MaxEvents
    /\ evCount' = evCount + 1
    /\ backendLog' = Append(backendLog, evCount + 1)
    /\ UNCHANGED <<component, panelVars, obsVars, storeVars, calls, nextId, backendMode,
                   backendConfigs, extVars>>

(***************************************************************************)
(* The backend slice: store/backend.ts and store/index.ts:205-294.         *)
(***************************************************************************)
\* observed: the failed attempts in a row after one more attempt, counted
\* up to MaxAttempts
AttemptsAfter(connected) ==
    IF connected THEN 0
    ELSE IF failedAttempts < MaxAttempts THEN failedAttempts + 1
    ELSE failedAttempts

\* sendCommand rejects when the response carries an error or invoke rejects
SendCommandThrows(r) == r.kind # "success"

SendToBackend(op, command, args) ==
    Invoke(op, "send_to_backend", command, args, "none")

Connect ==
    /\ component = "slice"
    /\ CanInvoke(1)
    /\ connecting' = TRUE
    /\ error' = "null"
    /\ Issue(Invoke("connect", "start_backend", "start_backend", NoArgs, "none"))
    /\ UNCHANGED <<component, panelVars, obsVars, thrown, isConnected, currentMode, debugEvents,
                   llmConfigs, taskStatus, backendVars, extVars>>

ConnectReturn(c) ==
    /\ component = "slice"
    /\ c.op = "connect"
    /\ Settled(c)
    /\ Consume(c)
    /\ IF Awaited(c).kind = "success"
       THEN isConnected' = TRUE /\ UNCHANGED error
       ELSE error' = "err" /\ UNCHANGED isConnected
    /\ connecting' = FALSE
    /\ failedAttempts' = AttemptsAfter(Awaited(c).kind = "success")
    /\ UNCHANGED <<component, panelVars, ignoredSwitch, lastApplied, thrown, currentMode, debugEvents, llmConfigs,
                   taskStatus, nextId, backendVars, extVars>>

Disconnect ==
    /\ component = "slice"
    /\ CanInvoke(1)
    /\ Issue(Invoke("disconnect", "stop_backend", "stop_backend", NoArgs, "none"))
    /\ UNCHANGED <<component, panelVars, obsVars, storeVars, backendVars, extVars>>

\* a disconnect that also empties the debug-event buffer
DisconnectReturnClearing(c) ==
    /\ component = "slice"
    /\ c.op = "disconnect"
    /\ Settled(c)
    /\ Consume(c)
    /\ IF Awaited(c).kind = "success"
       THEN isConnected' = FALSE /\ UNCHANGED error
       ELSE error' = "err" /\ UNCHANGED isConnected
    /\ debugEvents' = <<>>
    /\ UNCHANGED <<component, panelVars, obsVars, thrown, connecting, currentMode,
                   llmConfigs, taskStatus, nextId, backendVars, extVars>>

DisconnectReturn(c) ==
    /\ component = "slice"
    /\ c.op = "disconnect"
    /\ Settled(c)
    /\ Consume(c)
    /\ IF Awaited(c).kind = "success"
       THEN isConnected' = FALSE /\ UNCHANGED error
       ELSE error' = "err" /\ UNCHANGED isConnected
    /\ UNCHANGED <<component, panelVars, obsVars, thrown, connecting, currentMode, debugEvents,
                   llmConfigs, taskStatus, nextId, backendVars, extVars>>

CheckConnection ==
    /\ component = "slice"
    /\ CanInvoke(1)
    /\ Issue(Invoke("checkConnection", "check_backend", "check_backend",
                    NoArgs, "none"))
    /\ UNCHANGED <<component, panelVars, obsVars, storeVars, backendVars, extVars>>

CheckConnectionReturn(c) ==
    /\ component = "slice"
    /\ c.op = "checkConnection"
    /\ Settled(c)
    /\ Consume(c)
    /\ IF Awaited(c).kind = "success"
       THEN isConnected' = Awaited(c).flag /\ error' = "null"
       ELSE isConnected' = FALSE /\ error' = "err"
    /\ failedAttempts' = AttemptsAfter(Awaited(c).kind = "success" /\ Awaited(c).flag)
    /\ UNCHANGED <<component, panelVars, ignoredSwitch, lastApplied, thrown, connecting, currentMode, debugEvents,
                   llmConfigs, taskStatus, nextId, backendVars, extVars>>

\* sendTask over a sendCommand that does not look at isConnected
SendTaskUnchecked ==
    /\ component = "slice"
    /\ CanInvoke(1)
    /\ Issue(SendToBackend("sendTask", "handle_task", NoArgs))
    /\ UNCHANGED <<component, panelVars, obsVars, storeVars, backendVars, extVars>>

SendTask ==
    /\ component = "slice"
    /\ IF isConnected
       THEN /\ CanInvoke(1)
            /\ Issue(SendToBackend("sendTask", "handle_task", NoArgs))
            /\ UNCHANGED taskStatus
       ELSE /\ taskStatus' = "error"
            /\ UNCHANGED <<calls, nextId>>
    /\ UNCHANGED <<component, panelVars, obsVars, thrown, isConnected, connecting, error, currentMode,
                   debugEvents, llmConfigs, backendVars, extVars>>

SendTaskReturn(c) ==
    /\ component = "slice"
    /\ c.op = "sendTask"
    /\ Settled(c)
    /\ Consume(c)
    /\ taskStatus' = IF SendCommandThrows(Awaited(c)) THEN "error" ELSE "sent"
    /\ UNCHANGED <<component, panelVars, obsVars, thrown, isConnected, connecting, error, currentMode,
                   debugEvents, llmConfigs, nextId, backendVars, extVars>>

SetMode(mode) ==
    /\ component = "slice"
    /\ IF isConnected
       THEN /\ CanInvoke(1)
            /\ Issue(SendToBackend("setMode", "set_mode",
                                   [NoArgs EXCEPT !.mode = mode]))
       ELSE UNCHANGED <<calls, nextId>>
    /\ UNCHANGED <<component, panelVars, obsVars, storeVars, backendVars, extVars>>

SetModeReturn(c) ==
    /\ component = "slice"
    /\ c.op = "setMode"
    /\ Settled(c)
    /\ Consume(c)
    /\ currentMode' = IF SendCommandThrows(Awaited(c)) THEN currentMode
                      ELSE c.args.mode
    /\ UNCHANGED <<component, panelVars, obsVars, thrown, isConnected, connecting, error, debugEvents,
                   llmConfigs, taskStatus, nextId, backendVars, extVars>>

FetchDebugEvents ==
    /\ component = "slice"
    /\ IF isConnected
       THEN /\ CanInvoke(1)
            /\ Issue(SendToBackend("fetchDebugEvents", "get_debug_events", NoArgs))
       ELSE UNCHANGED <<calls, nextId>>
    /\ UNCHANGED <<component, panelVars, obsVars, storeVars, backendVars, extVars>>

FetchDebugEventsReturn(c) ==
    /\ component = "slice"
    /\ c.op = "fetchDebugEvents"
    /\ Settled(c)
    /\ Consume(c)
    /\ debugEvents' = IF SendCommandThrows(Awaited(c)) THEN debugEvents
                      ELSE Awaited(c).events
    /\ lastApplied' = IF SendCommandThrows(Awaited(c)) THEN lastApplied
                      ELSE c.id
    /\ UNCHANGED <<component, panelVars, failedAttempts, ignoredSwitch, thrown,
                   isConnected, connecting, error, currentMode,
                   llmConfigs, taskStatus, nextId, backendVars, extVars>>

ClearDebugLogs ==
    /\ component = "slice"
    /\ IF isConnected
       THEN /\ CanInvoke(1)
            /\ Issue(SendToBackend("clearDebugLogs", "clear_debug_logs", NoArgs))
       ELSE UNCHANGED <<calls, nextId>>
    /\ UNCHANGED <<component, panelVars, obsVars, storeVars, backendVars, extVars>>

ClearDebugLogsReturn(c) ==
    /\ component = "slice"
    /\ c.op = "clearDebugLogs"
    /\ Settled(c)
    /\ Consume(c)
    /\ debugEvents' = IF SendCommandThrows(Awaited(c)) THEN debugEvents
                      ELSE <<>>
    /\ lastApplied' = IF SendCommandThrows(Awaited(c)) THEN lastApplied
                      ELSE c.id
    /\ UNCHANGED <<component, panelVars, failedAttempts, ignoredSwitch, thrown,
                   isConnected, connecting, error, currentMode,
                   llmConfigs, taskStatus, nextId, backendVars, extVars>>

FetchLLMConfigs ==
    /\ component = "slice"
    /\ IF isConnected
       THEN /\ CanInvoke(1)
            /\ Issue(SendToBackend("fetchLLMConfigs", "get_llm_configs", NoArgs))
       ELSE UNCHANGED <<calls, nextId>>
    /\ UNCHANGED <<component, panelVars, obsVars, storeVars, backendVars, extVars>>

FetchLLMConfigsReturn(c) ==
    /\ component = "slice"
    /\ c.op = "fetchLLMConfigs"
    /\ Settled(c)
    /\ Consume(c)
    /\ llmConfigs' = IF SendCommandThrows(Awaited(c)) THEN llmConfigs
                     ELSE Awaited(c).configs
    /\ UNCHANGED <<component, panelVars, obsVars, thrown, isConnected, connecting, error, currentMode,
                   debugEvents, taskStatus, nextId, backendVars, extVars>>

\* the payload is { config }: the config as the UI passed it
SaveLLMConfig(config) ==
    /\ component = "slice"
    /\ IF isConnected
       THEN /\ CanInvoke(1)
            /\ Issue(SendToBackend("saveLLMConfig", "save_llm_config",
                                   [NoArgs EXCEPT !.config = config]))
            /\ UNCHANGED thrown
       ELSE /\ thrown' = "saveLLMConfig"
            /\ UNCHANGED <<calls, nextId>>
    /\ UNCHANGED <<component, panelVars, obsVars, isConnected, connecting, error, currentMode,
                   debugEvents, llmConfigs, taskStatus, backendVars, extVars>>

\* on success the store refetches the configs (a second sendCommand)
SaveLLMConfigReturn(c) ==
    /\ component = "slice"
    /\ c.op = "saveLLMConfig"
    /\ Settled(c)
    /\ IF ~SendCommandThrows(Awaited(c)) /\ isConnected
       THEN /\ calls' = (calls \ {c}) \cup
                   {SendToBackend("fetchLLMConfigs", "get_llm_configs", NoArgs)}
            /\ nextId' = nextId + 1
       ELSE Consume(c) /\ UNCHANGED nextId
    \* the catch block rethrows: the promise of saveLLMConfig rejects
    /\ thrown' = IF SendCommandThrows(Awaited(c)) THEN "saveLLMConfig"
                 ELSE thrown
    /\ UNCHANGED <<component, panelVars, obsVars, isConnected, connecting, error, currentMode,
                   debugEvents, llmConfigs, taskStatus, backendVars, extVars>>

(***************************************************************************)
(* The ApiService store: services/api.ts and store/index.ts:40-156.        *)
(***************************************************************************)
\* ApiService.sendCommand never rejects: a rejected invoke (or an unparsable
\* answer) becomes { status: 'error', error }
ApiStatus(r) == IF r.kind = "success" THEN "success" ELSE "error"

SendCommand(op, command, args, local) ==
    Invoke(op, "send_command", command, args, local)

ApiCheckConnection ==
    /\ component = "api"
    /\ CanInvoke(1)
    /\ connecting' = TRUE
    /\ Issue(SendCommand("checkConnection", "get_llm_status", NoArgs, "none"))
    /\ UNCHANGED <<component, panelVars, obsVars, thrown, isConnected, error, currentMode, debugEvents,
                   llmConfigs, taskStatus, backendVars, extVars>>

ApiCheckConnectionReturn(c) ==
    /\ component = "api"
    /\ c.op = "checkConnection"
    /\ Settled(c)
    /\ Consume(c)
    /\ isConnected' = (ApiStatus(Awaited(c)) = "success")
    /\ error' = IF ApiStatus(Awaited(c)) = "error" THEN "err" ELSE "null"
    /\ connecting' = FALSE
    /\ failedAttempts' = AttemptsAfter(ApiStatus(Awaited(c)) = "success")
    /\ UNCHANGED <<component, panelVars, ignoredSwitch, lastApplied, thrown, currentMode, debugEvents, llmConfigs,
                   taskStatus, nextId, backendVars, extVars>>

ApiSendTask ==
    /\ component = "api"
    /\ CanInvoke(1)
    /\ taskStatus' = "sending"
    /\ Issue(SendCommand("sendTask", "handle_task", NoArgs, "none"))
    /\ UNCHANGED <<component, panelVars, obsVars, thrown, isConnected, connecting, error, currentMode,
                   debugEvents, llmConfigs, backendVars, extVars>>

\* a store that sends the task again when it failed
ApiSendTaskReturnRetrying(c) ==
    /\ component = "api"
    /\ c.op = "sendTask"
    /\ Settled(c)
    /\ IF ApiStatus(Awaited(c)) = "error" /\ CanInvoke(1)
       THEN /\ calls' = (calls \ {c}) \cup
                   {SendCommand("sendTask", "handle_task", NoArgs, "none")}
            /\ nextId' = nextId + 1
            /\ UNCHANGED <<taskStatus, error>>
       ELSE /\ Consume(c)
            /\ taskStatus' = IF ApiStatus(Awaited(c)) = "success"
                             THEN "completed" ELSE "error"
            /\ error' = IF ApiStatus(Awaited(c)) = "error" THEN "err"
                        ELSE "null"
            /\ UNCHANGED nextId
    /\ UNCHANGED <<component, panelVars, obsVars, thrown, isConnected, connecting,
                   currentMode, debugEvents, llmConfigs, backendVars, extVars>>

ApiSendTaskReturn(c) ==
    /\ component = "api"
    /\ c.op = "sendTask"
    /\ Settled(c)
    /\ Consume(c)
    /\ taskStatus' = IF ApiStatus(Awaited(c)) = "success"
                     THEN "completed" ELSE "error"
    /\ error' = IF ApiStatus(Awaited(c)) = "error" THEN "err" ELSE "null"
    /\ UNCHANGED <<component, panelVars, obsVars, thrown, isConnected, connecting, currentMode,
                   debugEvents, llmConfigs, nextId, backendVars, extVars>>

\* setMode asks the backend for its current mode (get_mode, no arguments)
\* and then stores the requested mode
ApiSetMode(mode) ==
    /\ component = "api"
    /\ CanInvoke(1)
    /\ Issue(SendCommand("setMode", "get_mode", NoArgs, mode))
    /\ UNCHANGED <<component, panelVars, obsVars, storeVars, backendVars, extVars>>

ApiSetModeReturn(c) ==
    /\ component = "api"
    /\ c.op = "setMode"
    /\ Settled(c)
    /\ Consume(c)
    /\ currentMode' = IF ApiStatus(Awaited(c)) = "success" THEN c.local
                      ELSE currentMode
    /\ UNCHANGED <<component, panelVars, obsVars, thrown, isConnected, connecting, error, debugEvents,
                   llmConfigs, taskStatus, nextId, backendVars, extVars>>

ApiFetchDebugEvents ==
    /\ component = "api"
    /\ CanInvoke(1)
    /\ Issue(SendCommand("fetchDebugEvents", "get_debug_events", NoArgs, "none"))
    /\ UNCHANGED <<component, panelVars, obsVars, storeVars, backendVars, extVars>>

ApiFetchDebugEventsReturn(c) ==
    /\ component = "api"
    /\ c.op = "fetchDebugEvents"
    /\ Settled(c)
    /\ Consume(c)
    /\ debugEvents' = IF ApiStatus(Awaited(c)) = "success"
                      THEN Awaited(c).events ELSE debugEvents
    /\ lastApplied' = IF ApiStatus(Awaited(c)) = "success"
                      THEN c.id ELSE lastApplied
    /\ UNCHANGED <<component, panelVars, failedAttempts, ignoredSwitch, thrown,
                   isConnected, connecting, error, currentMode,
                   llmConfigs, taskStatus, nextId, backendVars, extVars>>

ApiClearDebugLogs ==
    /\ component = "api"
    /\ CanInvoke(1)
    /\ Issue(SendCommand("clearDebugLogs", "clear_debug_logs", NoArgs, "none"))
    /\ UNCHANGED <<component, panelVars, obsVars, storeVars, backendVars, extVars>>

ApiClearDebugLogsReturn(c) ==
    /\ component = "api"
    /\ c.op = "clearDebugLogs"
    /\ Settled(c)
    /\ Consume(c)
    /\ debugEvents' = IF ApiStatus(Awaited(c)) = "success" THEN <<>>
                      ELSE debugEvents
    /\ lastApplied' = IF ApiStatus(Awaited(c)) = "success" THEN c.id
                      ELSE lastApplied
    /\ UNCHANGED <<component, panelVars, failedAttempts, ignoredSwitch, thrown,
                   isConnected, connecting, error, currentMode,
                   llmConfigs, taskStatus, nextId, backendVars, extVars>>

ApiFetchLLMConfigs ==
    /\ component = "api"
    /\ CanInvoke(1)
    /\ Issue(SendCommand("fetchLLMConfigs", "get_llm_configs", NoArgs, "none"))
    /\ UNCHANGED <<component, panelVars, obsVars, storeVars, backendVars, extVars>>

ApiFetchLLMConfigsReturn(c) ==
    /\ component = "api"
    /\ c.op = "fetchLLMConfigs"
    /\ Settled(c)
    /\ Consume(c)
    /\ llmConfigs' = IF ApiStatus(Awaited(c)) = "success"
                     THEN Awaited(c).configs ELSE llmConfigs
    /\ UNCHANGED <<component, panelVars, obsVars, thrown, isConnected, connecting, error, currentMode,
                   debugEvents, taskStatus, nextId, backendVars, extVars>>

\* a store that caches the config when it dispatches the save
ApiSaveLLMConfigOptimistic(config) ==
    /\ component = "api"
    /\ CanInvoke(1)
    /\ Issue(SendCommand("saveLLMConfig", "save_llm_config",
                         [NoArgs EXCEPT !.config = config], "none"))
    /\ llmConfigs' = [a \in Agents |-> config]
    /\ UNCHANGED <<component, panelVars, obsVars, thrown, isConnected, connecting, error,
                   currentMode, debugEvents, taskStatus, backendVars, extVars>>

\* the arguments of save_llm_config are the config object itself
ApiSaveLLMConfig(config) ==
    /\ component = "api"
    /\ CanInvoke(1)
    /\ Issue(SendCommand("saveLLMConfig", "save_llm_config",
                         [NoArgs EXCEPT !.config = config], "none"))
    /\ UNCHANGED <<component, panelVars, obsVars, storeVars, backendVars, extVars>>

ApiSaveLLMConfigReturn(c) ==
    /\ component = "api"
    /\ c.op = "saveLLMConfig"
    /\ Settled(c)
    /\ IF ApiStatus(Awaited(c)) = "success"
       THEN /\ calls' = (calls \ {c}) \cup
                   {SendCommand("fetchLLMConfigs", "get_llm_configs", NoArgs, "none")}
            /\ nextId' = nextId + 1
       ELSE Consume(c) /\ UNCHANGED nextId
    \* otherwise it throws new Error(response.error || ...)
    /\ thrown' = IF ApiStatus(Awaited(c)) = "success" THEN thrown
                 ELSE "saveLLMConfig"
    /\ UNCHANGED <<component, panelVars, obsVars, isConnected, connecting, error, currentMode,
                   debugEvents, llmConfigs, taskStatus, backendVars, extVars>>

(***************************************************************************)
(* The VS Code extension: extension.ts and its webview panels.  A request  *)
(* goes to the backend through the command 'crewai.sendMessage'.           *)
(***************************************************************************)
SendMessage(op, action, args) ==
    Invoke(op, "crewai.sendMessage", action, args, "none")

Range(seq) == {seq[i] : i \in DOMAIN seq}

(***************************************************************************)
(* The debug console: webview/debug_panel.ts:4-217 with the commands       *)
(* crewai.getDebugEvents and crewai.clearDebugLogs of extension.ts.        *)
(***************************************************************************)
\* refreshEvents() posts getEvents; the panel runs crewai.getDebugEvents
RefreshEvents ==
    /\ component = "debug"
    /\ CanInvoke(1)
    /\ Issue(SendMessage("getDebugEvents", "get_events", NoArgs))
    /\ UNCHANGED <<component, panelVars, obsVars, storeVars, backendVars, extVars>>

\* a response that is no debug_response throws; otherwise the panel posts
\* updateEvents and the webview replaces its events
GetDebugEventsReturn(c) ==
    /\ component = "debug"
    /\ c.op = "getDebugEvents"
    /\ Settled(c)
    /\ Consume(c)
    /\ webEvents' = IF Awaited(c).kind = "success" THEN Awaited(c).events
                    ELSE webEvents
    /\ UNCHANGED <<component, panelVars, obsVars, modePanelVars, storeVars, nextId, backendVars,
                   agentPanelVars, llmPanelVars>>

\* clearLogs() posts clearLogs and empties events at once; the panel runs
\* crewai.clearDebugLogs
ClearLogs ==
    /\ component = "debug"
    /\ CanInvoke(1)
    /\ Issue(SendMessage("clearDebugLogs", "clear_logs", NoArgs))
    /\ webEvents' = <<>>
    /\ UNCHANGED <<component, panelVars, obsVars, modePanelVars, storeVars, backendVars, agentPanelVars,
                   llmPanelVars>>

\* crewai.clearDebugLogs only reports: a message either way
ClearLogsReturn(c) ==
    /\ component = "debug"
    /\ c.op = "clearDebugLogs"
    /\ Settled(c)
    /\ Consume(c)
    /\ UNCHANGED <<component, panelVars, obsVars, storeVars, nextId, backendVars, extVars>>

(***************************************************************************)
(* The agent panel over a WebSocket: out/webview/panel.js:246-439.         *)
(***************************************************************************)
\* the messages the backend can push: with or without a correlation id
InboundMessages ==
    [type : {"agent_response"}, correlation_id : {"none", "c1"}]
NoMessage == [type |-> "none", correlation_id |-> "none"]

\* the task message _sendMessageToBackend serializes: type, content, timestamp
TaskMessage == [type |-> "task", content |-> "task"]

WsOnOpen ==
    /\ component = "agent"
    /\ wsState = "connecting"
    /\ wsState' = "open"
    /\ uiStatus' = "Connected to agent"
    /\ UNCHANGED <<component, panelVars, obsVars, modePanelVars, storeVars, calls, nextId, backendVars,
                   debugPanelVars, wsSent, uiResponse, llmPanelVars>>

WsOnClose ==
    /\ component = "agent"
    /\ wsState \in {"connecting", "open"}
    /\ wsState' = "closed"
    /\ uiStatus' = "Disconnected from agent"
    /\ UNCHANGED <<component, panelVars, obsVars, modePanelVars, storeVars, calls, nextId, backendVars,
                   debugPanelVars, wsSent, uiResponse, llmPanelVars>>

\* ws.on('message'): every message that parses is posted to the webview,
\* which displays it
WsOnMessage(m, parses) ==
    /\ component = "agent"
    /\ wsState = "open"
    /\ uiResponse' = IF parses THEN m ELSE uiResponse
    /\ UNCHANGED <<component, panelVars, obsVars, modePanelVars, storeVars, calls, nextId, backendVars,
                   debugPanelVars, wsState, wsSent, uiStatus, llmPanelVars>>

SendMessageToBackend ==
    /\ component = "agent"
    /\ IF wsState = "open"
       THEN /\ Len(wsSent) < MaxCalls
            /\ wsSent' = Append(wsSent, TaskMessage)
            /\ UNCHANGED uiStatus
       ELSE /\ uiStatus' = "Not connected to agent"
            /\ UNCHANGED wsSent
    /\ UNCHANGED <<component, panelVars, obsVars, modePanelVars, storeVars, calls, nextId, backendVars,
                   debugPanelVars, wsState, uiResponse, llmPanelVars>>

(***************************************************************************)
(* The API key storage (extension.ts:19-51) and the LLM settings panel     *)
(* (out/webview/llm_settings_panel.js:350-397).                            *)
(***************************************************************************)
Includes(seq, x) == x \in Range(seq)
Filter(seq, x) == SelectSeq(seq, LAMBDA p : p # x)

\* storeAPIKey up to its first await: secrets.store
StoreAPIKey(provider, key) ==
    /\ component = "llm"
    /\ [op |-> "store", provider |-> provider] \notin keyOps
    /\ secrets' = [secrets EXCEPT ![provider] = key]
    /\ keyOps' = keyOps \cup {[op |-> "store", provider |-> provider]}
    /\ UNCHANGED <<component, panelVars, obsVars, modePanelVars, storeVars, calls, nextId, backendVars,
                   debugPanelVars, agentPanelVars, providerList, webConfigs>>

\* storeAPIKey after it: the provider list in global state
StoreAPIKeyList(k) ==
    /\ component = "llm"
    /\ k.op = "store"
    /\ keyOps' = keyOps \ {k}
    /\ providerList' = IF Includes(providerList, k.provider) THEN providerList
                       ELSE Append(providerList, k.provider)
    /\ UNCHANGED <<component, panelVars, obsVars, modePanelVars, storeVars, calls, nextId, backendVars,
                   debugPanelVars, agentPanelVars, secrets, webConfigs>>

\* deleteAPIKey up to its first await: secrets.delete
DeleteAPIKey(provider) ==
    /\ component = "llm"
    /\ [op |-> "delete", provider |-> provider] \notin keyOps
    /\ secrets' = [secrets EXCEPT ![provider] = "none"]
    /\ keyOps' = keyOps \cup {[op |-> "delete", provider |-> provider]}
    /\ UNCHANGED <<component, panelVars, obsVars, modePanelVars, storeVars, calls, nextId, backendVars,
                   debugPanelVars, agentPanelVars, providerList, webConfigs>>

DeleteAPIKeyList(k) ==
    /\ component = "llm"
    /\ k.op = "delete"
    /\ keyOps' = keyOps \ {k}
    /\ providerList' = Filter(providerList, k.provider)
    /\ UNCHANGED <<component, panelVars, obsVars, modePanelVars, storeVars, calls, nextId, backendVars,
                   debugPanelVars, agentPanelVars, secrets, webConfigs>>

GetAPIKey(provider) == secrets[provider]
ListProviders == providerList

\* the webview posts getConfigs: the panel fetches the configs
GetConfigs ==
    /\ component = "llm"
    /\ CanInvoke(1)
    /\ Issue(SendMessage("getConfigs", "get_configs", NoArgs))
    /\ UNCHANGED <<component, panelVars, obsVars, storeVars, backendVars, extVars>>

\* crewai.getLLMConfigs yields response.configs || {} ({} when it failed);
\* the panel then fetches the providers
GetConfigsReturn(c) ==
    /\ component = "llm"
    /\ c.op = "getConfigs"
    /\ Settled(c)
    /\ calls' = (calls \ {c}) \cup
          {[SendMessage("getProviders", "get_providers", NoArgs) EXCEPT
              !.held = IF Awaited(c).kind = "success" THEN Awaited(c).configs
                       ELSE EmptyConfigs]}
    /\ nextId' = nextId + 1
    /\ UNCHANGED <<component, panelVars, obsVars, storeVars, backendVars, extVars>>

\* the configs with the stored key of every listed provider merged in
MergeKeys(configs) ==
    [a \in Agents |->
        IF Includes(ListProviders, configs[a].provider)
        THEN [configs[a] EXCEPT !.apiKey = GetAPIKey(configs[a].provider)]
        ELSE configs[a]]

\* with configs and providers in hand the panel merges the keys and posts
\* setConfigs; the webview keeps the merged configs
GetProvidersReturn(c) ==
    /\ component = "llm"
    /\ c.op = "getProviders"
    /\ Settled(c)
    /\ Consume(c)
    /\ webConfigs' = MergeKeys(c.held)
    /\ UNCHANGED <<component, panelVars, obsVars, modePanelVars, storeVars, nextId, backendVars, debugPanelVars,
                   agentPanelVars, secrets, providerList, keyOps>>

\* saveConfig: the panel runs crewai.saveLLMConfig with the config as posted
SaveConfig(config) ==
    /\ component = "llm"
    /\ CanInvoke(1)
    /\ Issue(SendMessage("saveConfig", "save_config",
                         [NoArgs EXCEPT !.config = config]))
    /\ UNCHANGED <<component, panelVars, obsVars, storeVars, backendVars, extVars>>

SaveConfigReturn(c) ==
    /\ component = "llm"
    /\ c.op = "saveConfig"
    /\ Settled(c)
    /\ Consume(c)
    /\ UNCHANGED <<component, panelVars, obsVars, storeVars, nextId, backendVars, extVars>>

(***************************************************************************)
(* The mode control panel: webview/mode_control.ts with the commands       *)
(* crewai.getMode and crewai.switchMode of extension.ts.                   *)
(***************************************************************************)
\* the request the webview script posts when it loads
GetModeOnLoad == [SendMessage("getMode", "get_mode", NoArgs) EXCEPT !.id = 1]

\* an updateMode message; cause (observed, not a field of the message) is the
\* handler that posted it
UpdateMode(mode, cause) == [mode |-> mode, description |-> mode, cause |-> cause]

\* crewai.getMode hands back the response, or { status: 'error', error } when
\* the request failed; the panel posts its mode and description, which a
\* response without them leaves undefined
GetModeReturn(c) ==
    /\ component = "mode"
    /\ c.op = "getMode"
    /\ Settled(c)
    /\ Consume(c)
    /\ modeInbox' = Append(modeInbox,
                           UpdateMode(IF Awaited(c).kind = "success"
                                      THEN Awaited(c).mode ELSE "undefined",
                                      "getMode"))
    /\ UNCHANGED <<component, panelVars, obsVars, storeVars, nextId, backendVars,
                   debugPanelVars, agentPanelVars, llmPanelVars, webMode,
                   webDescription>>

\* switchMode(mode) in the webview: nothing when mode is the current mode,
\* otherwise the panel runs crewai.switchMode
SwitchMode(mode) ==
    /\ component = "mode"
    /\ IF mode = webMode
       THEN /\ ignoredSwitch' = mode
            /\ UNCHANGED <<calls, nextId>>
       ELSE /\ CanInvoke(1)
            /\ Issue(SendMessage("switchMode", "switch_mode",
                                 [NoArgs EXCEPT !.mode = mode]))
            /\ UNCHANGED ignoredSwitch
    /\ UNCHANGED <<component, panelVars, failedAttempts, lastApplied, storeVars,
                   backendVars, extVars>>

\* on status success the panel posts updateMode with the requested mode;
\* otherwise it shows an error message
SwitchModeReturn(c) ==
    /\ component = "mode"
    /\ c.op = "switchMode"
    /\ Settled(c)
    /\ Consume(c)
    /\ modeInbox' = IF Awaited(c).kind = "success"
                    THEN Append(modeInbox, UpdateMode(c.args.mode, "switchMode"))
                    ELSE modeInbox
    /\ UNCHANGED <<component, panelVars, obsVars, storeVars, nextId, backendVars,
                   debugPanelVars, agentPanelVars, llmPanelVars, webMode,
                   webDescription>>

\* the webview handles an updateMode message: updateModeUI sets currentMode,
\* then looks up the button of that mode, which throws for a mode that has
\* no button, before the description is written
UpdateModeUI ==
    /\ component = "mode"
    /\ modeInbox # <<>>
    /\ webMode' = Head(modeInbox).mode
    /\ webDescription' = IF Head(modeInbox).mode \in Modes
                         THEN Head(modeInbox).description ELSE webDescription
    /\ modeInbox' = Tail(modeInbox)
    /\ UNCHANGED <<component, panelVars, obsVars, storeVars, calls, nextId, backendVars,
                   debugPanelVars, agentPanelVars, llmPanelVars>>

(***************************************************************************)
(* The lifecycle of the webview panels: each class keeps the panel it      *)
(* created in a static currentPanel.                                       *)
(***************************************************************************)
PanelClasses == {"DebugPanel", "ModeControlPanel", "LLMSettingsPanel"}

\* the classes whose constructor registers an onDidDispose handler that
\* clears currentPanel: DebugPanel does, ModeControlPanel and
\* LLMSettingsPanel register none
ClearsOnDispose(class) == class = "DebugPanel"

\* createOrShow / render: reveal the current panel when there is one,
\* otherwise create a panel and keep it in currentPanel
CreateOrShow(class) ==
    /\ component = "panels"
    /\ IF currentPanel[class]
       THEN UNCHANGED panelVars
       ELSE /\ createdPanels[class] < MaxPanels
            /\ createdPanels' = [createdPanels EXCEPT ![class] = @ + 1]
            /\ livePanels' = [livePanels EXCEPT ![class] = @ + 1]
            /\ currentPanel' = [currentPanel EXCEPT ![class] = TRUE]
    /\ UNCHANGED <<component, obsVars, storeVars, calls, nextId, backendVars,
                   extVars>>

\* the user closes a panel: VS Code disposes it and fires onDidDispose
ClosePanel(class) ==
    /\ component = "panels"
    /\ livePanels[class] > 0
    /\ livePanels' = [livePanels EXCEPT ![class] = @ - 1]
    /\ currentPanel' = IF ClearsOnDispose(class)
                       THEN [currentPanel EXCEPT ![class] = FALSE]
                       ELSE currentPanel
    /\ UNCHANGED <<component, createdPanels, obsVars, storeVars, calls, nextId,
                   backendVars, extVars>>

(***************************************************************************)
(* The specification.                                                      *)
(***************************************************************************)
Components == {"slice", "api", "debug", "agent", "llm", "mode", "panels"}

Init ==
    /\ component \in Components
    /\ isConnected = FALSE
    /\ connecting = FALSE
    /\ error = "null"
    /\ currentMode = "default"
    /\ debugEvents = <<>>
    /\ llmConfigs = EmptyConfigs
    /\ taskStatus = ""
    /\ thrown = "none"
    /\ nextId = IF component = "mode" THEN 2 ELSE 1
    /\ calls = IF component = "mode" THEN {GetModeOnLoad} ELSE {}
    /\ backendLog = <<>>
    /\ backendMode = "plan"
    /\ backendConfigs = EmptyConfigs
    /\ evCount = 0
    /\ webEvents = <<>>
    /\ wsState = "connecting"
    /\ wsSent = <<>>
    /\ uiResponse = NoMessage
    /\ uiStatus = "Initializing..."
    /\ secrets = [p \in ProviderNames |-> "none"]
    /\ providerList = <<>>
    /\ keyOps = {}
    /\ webConfigs = EmptyConfigs
    /\ webMode = "plan"
    /\ webDescription = ""
    /\ modeInbox = <<>>
    /\ failedAttempts = 0
    /\ ignoredSwitch = "none"
    /\ lastApplied = 0
    /\ currentPanel = [class \in PanelClasses |-> FALSE]
    /\ livePanels = [class \in PanelClasses |-> 0]
    /\ createdPanels = [class \in PanelClasses |-> 0]

Backend ==
    \/ \E c \in calls : BackendSucceed(c)
    \/ \E c \in calls, running \in BOOLEAN : BackendCheck(c, running)
    \/ \E c \in calls, kind \in {"error", "throw"} : BackendFail(c, kind)
    \/ BackendLogEvent

Slice ==
    \/ Connect
    \/ \E c \in calls : ConnectReturn(c)
    \/ Disconnect
    \/ \E c \in calls : DisconnectReturn(c)
    \/ CheckConnection
    \/ \E c \in calls : CheckConnectionReturn(c)
    \/ SendTask
    \/ \E c \in calls : SendTaskReturn(c)
    \/ \E mode \in Modes : SetMode(mode)
    \/ \E c \in calls : SetModeReturn(c)
    \/ FetchDebugEvents
    \/ \E c \in calls : FetchDebugEventsReturn(c)
    \/ ClearDebugLogs
    \/ \E c \in calls : ClearDebugLogsReturn(c)
    \/ FetchLLMConfigs
    \/ \E c \in calls : FetchLLMConfigsReturn(c)
    \/ \E config \in UIConfigs : SaveLLMConfig(config)
    \/ \E c \in calls : SaveLLMConfigReturn(c)

Api ==
    \/ ApiCheckConnection
    \/ \E c \in calls : ApiCheckConnectionReturn(c)
    \/ ApiSendTask
    \/ \E c \in calls : ApiSendTaskReturn(c)
    \/ \E mode \in Modes : ApiSetMode(mode)
    \/ \E c \in calls : ApiSetModeReturn(c)
    \/ ApiFetchDebugEvents
    \/ \E c \in calls : ApiFetchDebugEventsReturn(c)
    \/ ApiClearDebugLogs
    \/ \E c \in calls : ApiClearDebugLogsReturn(c)
    \/ ApiFetchLLMConfigs
    \/ \E c \in calls : ApiFetchLLMConfigsReturn(c)
    \/ \E config \in UIConfigs : ApiSaveLLMConfig(config)
    \/ \E c \in calls : ApiSaveLLMConfigReturn(c)

DebugConsole ==
    \/ RefreshEvents
    \/ \E c \in calls : GetDebugEventsReturn(c)
    \/ ClearLogs
    \/ \E c \in calls : ClearLogsReturn(c)

AgentPanel ==
    \/ WsOnOpen
    \/ WsOnClose
    \/ \E m \in InboundMessages, parses \in BOOLEAN : WsOnMessage(m, parses)
    \/ SendMessageToBackend

LLMSettings ==
    \/ \E provider \in ProviderNames, key \in SecretKeys :
          StoreAPIKey(provider, key)
    \/ \E k \in keyOps : StoreAPIKeyList(k)
    \/ \E provider \in ProviderNames : DeleteAPIKey(provider)
    \/ \E k \in keyOps : DeleteAPIKeyList(k)
    \/ GetConfigs
    \/ \E c \in calls : GetConfigsReturn(c)
    \/ \E c \in calls : GetProvidersReturn(c)
    \/ \E config \in WebviewConfigs : SaveConfig(config)
    \/ \E c \in calls : SaveConfigReturn(c)

ModeControl ==
    \/ \E c \in calls : GetModeReturn(c)
    \/ \E mode \in Modes : SwitchMode(mode)
    \/ \E c \in calls : SwitchModeReturn(c)
    \/ UpdateModeUI

Panels ==
    \/ \E class \in PanelClasses : CreateOrShow(class)
    \/ \E class \in PanelClasses : ClosePanel(class)

Next ==
    \/ Backend \/ Slice \/ Api \/ DebugConsole \/ AgentPanel \/ LLMSettings
    \/ ModeControl \/ Panels

Spec == Init /\ [][Next]_vars

\* the continuations the event loop runs once their promise has settled
Continuations ==
    \E c \in calls :
        \/ ConnectReturn(c) \/ DisconnectReturn(c) \/ CheckConnectionReturn(c)
        \/ SendTaskReturn(c) \/ SetModeReturn(c) \/ FetchDebugEventsReturn(c)
        \/ ClearDebugLogsReturn(c) \/ FetchLLMConfigsReturn(c)
        \/ SaveLLMConfigReturn(c)
        \/ ApiCheckConnectionReturn(c) \/ ApiSendTaskReturn(c)
        \/ ApiSetModeReturn(c) \/ ApiFetchDebugEventsReturn(c)
        \/ ApiClearDebugLogsReturn(c) \/ ApiFetchLLMConfigsReturn(c)
        \/ ApiSaveLLMConfigReturn(c)
        \/ GetDebugEventsReturn(c) \/ ClearLogsReturn(c)
        \/ GetConfigsReturn(c) \/ GetProvidersReturn(c) \/ SaveConfigReturn(c)
        \/ GetModeReturn(c) \/ SwitchModeReturn(c)

\* every settled promise has its continuation run; the backend owes no answer
FairSpec == Spec /\ WF_vars(Continuations)

(***************************************************************************)
(* The claims.                                                             *)
(***************************************************************************)
\* the invocations a step issues
NewCalls == {c \in calls' : c.id >= nextId}
\* the invocations whose continuation a step runs
Consumed == {c \in calls : Settled(c) /\ \A d \in calls' : d.id # c.id}

CommandChannels == {"send_command", "send_to_backend"}

C2_ForbiddenCommandNeverSent ==
    [][\A c \in NewCalls : ~(c.command = "handle_task" /\ currentMode = "plan")]_vars

\* C3: the local mode changes only in a step that consumes a Success answer
\* to the switch request itself, and then to the mode that request asked for.
C3_ModeChangesOnlyOnSwitchSuccess ==
    [][currentMode' # currentMode =>
         \E c \in Consumed :
             /\ c.command \in {"set_mode", "switch_mode"}
             /\ c.resp.kind = "success"
             /\ c.args.mode = currentMode']_vars

\* C4: no save-config payload handed to the transport carries an API key.
C4_NoApiKeyInSavePayload ==
    \A c \in calls :
        c.command \in {"save_llm_config", "save_config"}
            => c.args.config.apiKey = "none"

\* C5: when disconnect() has completed, no command sent before disconnect()
\* was called is still pending: each one has been failed.
C5_DisconnectFailsPending ==
    [][\A d \in Consumed :
         (d.op = "disconnect" /\ d.resp.kind = "success") =>
             \A c \in calls' :
                 (c.channel \in CommandChannels /\ c.id < d.id) =>
                     Settled(c) /\ c.resp.kind \in {"error", "throw"}]_vars

\* C6: a debug-event buffer is not touched by issuing a clear; it changes on
\* a clear only when the clear command returned Success, and is then empty.
C6_ClearOnlyAfterSuccess ==
    [][/\ (\E c \in NewCalls : c.command \in {"clear_debug_logs", "clear_logs"})
            => UNCHANGED <<debugEvents, webEvents>>
       /\ \A c \in Consumed :
            c.command \in {"clear_debug_logs", "clear_logs"} =>
                IF c.resp.kind = "success"
                THEN debugEvents' = <<>> /\ webEvents' = <<>>
                ELSE UNCHANGED <<debugEvents, webEvents>>]_vars

\* C7: every command handed to the transport stops being pending, also when
\* no answer to it ever arrives.
C7_NoCommandPendingForever ==
    \A i \in 1..(2 * MaxCalls) :
        (\E c \in calls : c.id = i /\ c.channel \in CommandChannels /\ Pending(c))
            ~> ~(\E c \in calls : c.id = i /\ Pending(c))

\* the correlation ids this session has issued: those of the messages it sent
IssuedIds ==
    {m.correlation_id :
        m \in {x \in Range(wsSent) : "correlation_id" \in DOMAIN x}}

\* C8: a response shown to the UI carries a correlation id this session
\* issued; one with an id never issued is dropped.
C8_UnknownIdNotDelivered ==
    (uiResponse # NoMessage /\ uiResponse.correlation_id # "none")
        => uiResponse.correlation_id \in IssuedIds

\* the buffer's capacity (500 by default), scaled to the model: the backend
\* can log one event more than the buffer may hold
Capacity == MaxEvents - 1

\* C9: a debug-event buffer never holds more events than its capacity.
C9_BufferWithinCapacity ==
    /\ Len(debugEvents) <= Capacity
    /\ Len(webEvents) <= Capacity

\* C10: getConfigs hands the webview, for every agent config whose provider
\* has a key in the secret store, the config with that key, read at that
\* moment, and leaves the persisted configs as they are (stated for the
\* calls that complete while no storeAPIKey / deleteAPIKey is in flight).
C10_GetConfigsMergesStoredKeys ==
    [][\A c \in Consumed :
         (c.op = "getProviders" /\ keyOps = {}) =>
             /\ \A a \in Agents :
                  (c.held[a].provider \in ProviderNames
                     /\ secrets[c.held[a].provider] # "none")
                  => webConfigs'[a] =
                       [c.held[a] EXCEPT !.apiKey = secrets[c.held[a].provider]]
             /\ UNCHANGED backendConfigs]_vars

\* the commands that persist an agent's config
SaveCommands == {"save_llm_config", "save_config"}
\* the validity the contract asks of a config: temperature in [0, 2] and
\* max tokens, when present, positive
ValidConfig(config) ==
    /\ config.temperature >= 0
    /\ config.temperature <= 20
    /\ config.maxTokens # <<>> => config.maxTokens[1] > 0

\* C11: no save command is ever dispatched for a config whose temperature
\* lies outside [0, 2] or whose max tokens is present and not positive.
C11_InvalidConfigNeverDispatched ==
    \A c \in calls : c.command \in SaveCommands => ValidConfig(c.args.config)

\* C12: saveLLMConfig never updates the cached llmConfigs itself: dispatching
\* the save leaves the cache as it is, a save that failed leaves it as it is,
\* and the cache only ever changes by a fetch of the configs that succeeded.
C12_CacheUnchangedOnSaveFailure ==
    [][/\ \A c \in NewCalls :
             c.command = "save_llm_config" => llmConfigs' = llmConfigs
       /\ \A c \in Consumed :
             (c.command = "save_llm_config" /\ c.resp.kind # "success") =>
                 llmConfigs' = llmConfigs
       /\ llmConfigs' # llmConfigs =>
             \E c \in Consumed :
                 c.command = "get_llm_configs" /\ c.resp.kind = "success"]_vars
\* a save of another config than the cached one has failed while the cache
\* holds a config
C12_Witness ==
    \E c \in calls :
        /\ c.command = "save_llm_config"
        /\ Settled(c)
        /\ c.resp.kind # "success"
        /\ llmConfigs # EmptyConfigs
        /\ \E a \in Agents : llmConfigs[a] # c.args.config

\* C13: connect() called while the store is already connected is a no-op: it
\* makes no start_backend invocation and changes no state.
C13_ConnectIdempotent ==
    [][isConnected =>
          /\ \A c \in NewCalls : c.command # "start_backend"
          /\ (\E c \in NewCalls : c.op = "connect") => UNCHANGED storeVars]_vars

\* C14: disconnect() leaves the debug-event buffer as it is, both when it is
\* called and when stop_backend has answered, with success or with failure.
C14_DisconnectKeepsDebugEvents ==
    [][((\E c \in NewCalls : c.op = "disconnect")
            \/ (\E c \in Consumed : c.op = "disconnect")) =>
          debugEvents' = debugEvents]_vars
\* stop_backend has answered a disconnect while the buffer holds events
C14_Witness ==
    \E c \in calls : c.op = "disconnect" /\ Settled(c) /\ debugEvents # <<>>

\* C15: whenever a connection attempt (connect, checkConnection) fails, the
\* store is left disconnected with the error recorded, whatever its state was
\* before.
C15_ConnectFailureDisconnects ==
    [][\A c \in Consumed :
          (c.op \in {"connect", "checkConnection"} /\ c.resp.kind # "success") =>
              isConnected' = FALSE /\ error' # "null"]_vars

\* C16: once MaxAttempts connection attempts in a row have failed, no further
\* automatic attempt (the App's periodic checkConnection) is started.
C16_BoundedReconnect ==
    [][\A c \in NewCalls :
          c.op = "checkConnection" => failedAttempts < MaxAttempts]_vars

\* the closed set of command types (api.ts)
CommandType ==
    {"handle_task", "get_mode", "get_llm_status", "get_debug_events",
     "clear_debug_logs", "get_llm_providers", "get_llm_configs",
     "save_llm_config"}

\* C17: no command whose type is outside the closed set of known command
\* types is ever handed to the transport.
C17_UnknownCommandNeverSent ==
    \A c \in calls : c.channel \in CommandChannels => c.command \in CommandType

\* C18: no store action rejects to the UI: every failure reaches it as a
\* value with status error, never as a thrown exception.
C18_NoExceptionAcrossBoundary == thrown = "none"

\* C19: one step hands the transport at most one invocation, and the step
\* that consumes the answer of a command, failed or not, never sends that
\* command again: a command is sent once per dispatch.
C19_AtMostOneSendPerDispatch ==
    [][/\ Cardinality(NewCalls) <= 1
       /\ \A c \in Consumed : \A n \in NewCalls : n.command # c.command]_vars
\* a task was sent, failed and was reported, and nothing is in flight
C19_Witness == component = "api" /\ taskStatus = "error" /\ calls = {}

\* C20: once the extension has received the backend's acceptance of a mode
\* switch, every switch dispatched from then on has been checked against the
\* accepted mode: none is checked against the mode held before it.
C20_NoStaleModeCheck ==
    [][\A c \in NewCalls :
          c.command = "switch_mode" =>
              \A i \in DOMAIN modeInbox :
                  modeInbox[i].cause = "switchMode" =>
                      webMode = modeInbox[i].mode]_vars

\* C21: the answer to a command of the backend slice that arrives while the
\* store is disconnected is discarded: the step that receives it changes no
\* store state.
C21_DisconnectedResponseDiscarded ==
    [][\A c \in Consumed :
          (c.channel = "send_to_backend" /\ ~isConnected) =>
              UNCHANGED storeVars]_vars

\* C22: a switch request whose target is the mode the session is already in
\* is never dropped without anything being posted: the webview has never
\* returned from switchMode(mode) with mode equal to its current mode
\* without a message to the panel or a notification.
C22_NoSilentSelfTransition == ignoredSwitch = "none"

\* C23: the session mode is PLAN or ACT in every reachable state, the initial
\* one included: the store's currentMode and the mode control webview's
\* currentMode are never anything else.
C23_ModeAlwaysPlanOrAct == currentMode \in Modes /\ webMode \in Modes

\* C24: a health check that fails while the store is connected does not take
\* the store straight to disconnected: isConnected is still set after the
\* step (the degraded state), and the step starts a reconnect attempt.
FailedCheck(c) ==
    /\ c.op = "checkConnection"
    /\ IF component = "slice"
       THEN ~(c.resp.kind = "success" /\ c.resp.flag)
       ELSE c.resp.kind # "success"
C24_FailedCheckDegrades ==
    [][\A c \in Consumed :
          (FailedCheck(c) /\ isConnected) =>
              /\ isConnected'
              /\ \E n \in NewCalls : n.op \in {"connect", "checkConnection"}]_vars

\* C25: once every switch-mode request of the store has run to completion
\* (none is in flight any more) and at least one has been applied, the mode
\* the store shows is the mode the backend is in, whatever the order the
\* concurrently issued requests were answered in.
C25_ModeConvergesAfterSwitches ==
    (/\ component = "slice"
     /\ currentMode \in Modes
     /\ \A c \in calls : c.op # "setMode") => currentMode = backendMode

\* C26: once every storeAPIKey and deleteAPIKey call has run to completion,
\* the provider list names a provider exactly when a key is stored for it:
\* listProviders() contains p if and only if getAPIKey(p) returns a key.
C26_ProviderListMatchesSecrets ==
    keyOps = {} =>
        \A p \in ProviderNames :
            Includes(ListProviders, p) <=> GetAPIKey(p) # "none"

\* C27: debugEvents holds the result of the most recently issued fetch or
\* clear: the answer to a fetch that was issued before the operation whose
\* result the store already holds arrives late and changes nothing.
C27_StaleFetchNeverOverwrites ==
    [][\A c \in Consumed :
          (c.op = "fetchDebugEvents" /\ c.id < lastApplied) =>
              debugEvents' = debugEvents]_vars

\* C28: in the slice store, no command reaches the transport while
\* isConnected is false, and a sendTask rejected for that reason reports the
\* error without a call and without a change to isConnected, connecting or
\* error.
C28_NotConnectedRejected ==
    [][component = "slice" =>
          /\ \A c \in NewCalls : c.channel = "send_to_backend" => isConnected
          /\ (~isConnected /\ Consumed = {} /\ taskStatus' # taskStatus) =>
                 /\ taskStatus' = "error"
                 /\ NewCalls = {}
                 /\ UNCHANGED <<isConnected, connecting, error>>]_vars
\* a sendTask was rejected by a store that has never invoked the transport
C28_Witness ==
    /\ component = "slice"
    /\ ~isConnected
    /\ taskStatus = "error"
    /\ nextId = 1

\* C29: the connecting flag is set exactly while a connection attempt is in
\* flight: connect() in the slice store, checkConnection() in the API
\* revision, whose promise has not been continued yet.
SetsConnecting(c) ==
    \/ c.op = "connect"
    \/ component = "api" /\ c.op = "checkConnection"
C29_ConnectingWhileInFlight ==
    connecting <=> \E c \in calls : SetsConnecting(c)

\* C30: each webview panel class has at most one live panel, and its static
\* currentPanel is set exactly while that panel is live: once the panel is
\* closed currentPanel is cleared, so that the next createOrShow / render
\* creates a new one.
C30_SingletonPanelCleared ==
    \A class \in PanelClasses :
        /\ livePanels[class] <= 1
        /\ currentPanel[class] <=> livePanels[class] = 1

=============================================================================
